---- MODULE Spec2Model ----
(***************************************************************************)
(* TavilySearchPlugin (semantic_kernel_plugins/plugins/web/               *)
(* tavily_web_search.py): construction, the three entry points (search,   *)
(* search_detailed, search_context), the token-budget truncation and the  *)
(* two markdown renderers.                                                 *)
(*                                                                         *)
(* A Python str is modelled as a Text: a sequence of pieces, each piece a  *)
(* TLA+ string; the str denoted is the concatenation of the pieces and its *)
(* len() is the sum of the pieces' lengths.  Strings that come from the    *)
(* caller or the provider are written one character per piece, so that     *)
(* JSON escaping can be computed character by character; the literals of   *)
(* the code are one piece each.                                            *)
(***************************************************************************)
EXTENDS Integers, Sequences, FiniteSets, TLC

VARIABLES
    env_key,         \* os.environ's TAVILY_API_KEY: None, or Some(Text)
    pc,              \* "new" (no instance yet), "failed" (__init__ raised), "ready"
    api_key,         \* self.api_key
    client,          \* self.client: the provider handle, or unset
    search_mode,     \* self._search_mode
    search_depth,    \* self.search_depth
    max_tokens,      \* self.max_tokens
    include_answer,  \* self.include_answer
    format,          \* self.format
    max_results,     \* self.max_results
    call,            \* the most recent operation and its inputs
    provider_calls,  \* the remote calls that operation made, in order
    sink_calls,      \* the logger.log_search_results calls it made, in order
    ret              \* its outcome: a returned value or a raised exception

cfgVars == <<api_key, client, search_mode, search_depth, max_tokens,
             include_answer, format, max_results>>
vars == <<env_key, pc, api_key, client, search_mode, search_depth, max_tokens,
          include_answer, format, max_results, call, provider_calls,
          sink_calls, ret>>

-----------------------------------------------------------------------------
(* Bounds of the model.                                                    *)

\* longest result list the provider returns
MaxResults == 2
\* largest configured result cap, and largest max_results argument
MaxCap == 2
\* the configured token budgets are TokenStep, 2*TokenStep, ...; one projected
\* record with one-character fields and a one-digit score serialises to 54
\* characters
TokenStep == 54
MaxTokenSteps == 2
\* SpecTrunc tries every token budget 1..MaxTokens on every list of at most
\* MaxTruncLen results
MaxTokens == 175
MaxTruncLen == 3
\* the score a provider result carries when it carries one
MaxScore == 10

-----------------------------------------------------------------------------
(* Python values.                                                          *)

None == <<>>
Some(v) == <<v>>
Unset == [unset |-> TRUE]

PyNone == [kind |-> "None"]
PyList(items) == [kind |-> "list", items |-> items]

\* d.get(k, default) on a dict modelled as a function with DOMAIN = its keys
DictGet(d, k, default) == IF k \in DOMAIN d THEN d[k] ELSE default

Min(a, b) == IF a < b THEN a ELSE b
Max(a, b) == IF a > b THEN a ELSE b

\* s[:n], Python slice semantics (a negative n counts from the end)
SliceTo(s, n) ==
    IF n >= 0 THEN SubSeq(s, 1, Min(n, Len(s)))
    ELSE SubSeq(s, 1, Max(0, Len(s) + n))

RECURSIVE TextLen(_)
TextLen(t) == IF t = <<>> THEN 0 ELSE Len(Head(t)) + TextLen(Tail(t))

Digit(d) == CASE d = 0 -> "0" [] d = 1 -> "1" [] d = 2 -> "2" [] d = 3 -> "3"
              [] d = 4 -> "4" [] d = 5 -> "5" [] d = 6 -> "6" [] d = 7 -> "7"
              [] d = 8 -> "8" [] d = 9 -> "9"

\* str(n) / json's rendering of a non-negative int, one piece per digit
RECURSIVE IntRepr(_)
IntRepr(n) == IF n < 10 THEN <<Digit(n)>>
              ELSE IntRepr(n \div 10) \o <<Digit(n % 10)>>

HasPiece(t, p) == \E i \in 1..Len(t) : t[i] = p

-----------------------------------------------------------------------------
(* json.dumps for the shapes the plugin serialises.                        *)

\* json's escaping of one character (ensure_ascii; the inputs are ASCII)
JsonEscapeChar(c) ==
    CASE c = "\"" -> "\\\""
      [] c = "\\" -> "\\\\"
      [] c = "\n" -> "\\n"
      [] OTHER -> c

JsonString(s) ==
    <<"\"">> \o [i \in 1..Len(s) |-> JsonEscapeChar(s[i])] \o <<"\"">>

\* json.dumps(clean_result): {"title": ..., "url": ..., "content": ..., "score": n}
JsonCleanResult(r) ==
    <<"{", "\"title\"", ": ">> \o JsonString(r.title)
    \o <<", ", "\"url\"", ": ">> \o JsonString(r.url)
    \o <<", ", "\"content\"", ": ">> \o JsonString(r.content)
    \o <<", ", "\"score\"", ": ">> \o IntRepr(r.score) \o <<"}">>

RECURSIVE JsonCleanList(_, _)
JsonCleanList(rs, i) ==
    IF i > Len(rs) THEN <<>>
    ELSE (IF i > 1 THEN <<", ">> ELSE <<>>) \o JsonCleanResult(rs[i])
         \o JsonCleanList(rs, i + 1)

\* json.dumps(clean_response): keys in insertion order query, answer?, results
JsonCleanResponse(d) ==
    <<"{", "\"query\"", ": ">> \o JsonString(d["query"])
    \o (IF "answer" \in DOMAIN d
        THEN <<", ", "\"answer\"", ": ">> \o JsonString(d["answer"])
        ELSE <<>>)
    \o <<", ", "\"results\"", ": ">>
    \o (IF d["results"] = <<>> THEN <<"[]">>
        ELSE <<"[">> \o JsonCleanList(d["results"], 1) \o <<"]">>)
    \o <<"}">>

\* one provider result under json.dumps(..., indent=2), at nesting depth 2
JsonRawResult(r) ==
    <<"{", "\n      ", "\"title\"", ": ">> \o JsonString(r["title"])
    \o <<",", "\n      ", "\"url\"", ": ">> \o JsonString(r["url"])
    \o <<",", "\n      ", "\"content\"", ": ">> \o JsonString(r["content"])
    \o (IF "score" \in DOMAIN r
        THEN <<",", "\n      ", "\"score\"", ": ">> \o IntRepr(r["score"])
        ELSE <<>>)
    \o <<"\n    ", "}">>

RECURSIVE JsonRawList(_, _)
JsonRawList(rs, i) ==
    IF i > Len(rs) THEN <<>>
    ELSE (IF i > 1 THEN <<",">> ELSE <<>>) \o <<"\n    ">> \o JsonRawResult(rs[i])
         \o JsonRawList(rs, i + 1)

JsonRawResultsValue(v) ==
    IF v.kind = "None" THEN <<"null">>
    ELSE IF v.items = <<>> THEN <<"[]">>
    ELSE <<"[">> \o JsonRawList(v.items, 1) \o <<"\n  ", "]">>

\* json.dumps(results, indent=2) of the provider's response
JsonRawResponse(resp) ==
    IF DOMAIN resp = {} THEN <<"{}">>
    ELSE <<"{">>
         \o (IF "answer" \in DOMAIN resp
             THEN <<"\n  ", "\"answer\"", ": ">> \o JsonString(resp["answer"])
             ELSE <<>>)
         \o (IF "results" \in DOMAIN resp
             THEN (IF "answer" \in DOMAIN resp THEN <<",">> ELSE <<>>)
                  \o <<"\n  ", "\"results\"", ": ">>
                  \o JsonRawResultsValue(resp["results"])
             ELSE <<>>)
         \o <<"\n", "}">>

-----------------------------------------------------------------------------
(* TavilySearchPlugin._process_results_with_token_limit                    *)

CleanResult(result) ==
    [title |-> result["title"], url |-> result["url"],
     content |-> result["content"], score |-> DictGet(result, "score", 0)]

\* result_tokens = len(json.dumps(clean_result))
ResultTokens(clean_result) == TextLen(JsonCleanResult(clean_result))

OverBudgetInclusive(current_token_count, result_tokens, budget) ==
    current_token_count + result_tokens >= budget

\* if current_token_count + result_tokens > self.max_tokens: break
OverBudget(current_token_count, result_tokens, budget) ==
    current_token_count + result_tokens > budget

RECURSIVE ProcessLoopSkip(_, _, _, _, _)
ProcessLoopSkip(results, i, clean_results, current_token_count, budget) ==
    IF i > Len(results) THEN clean_results
    ELSE LET clean_result == CleanResult(results[i])
             result_tokens == ResultTokens(clean_result)
         IN  IF OverBudget(current_token_count, result_tokens, budget)
             THEN ProcessLoopSkip(results, i + 1, clean_results,
                                  current_token_count, budget)
             ELSE ProcessLoopSkip(results, i + 1,
                                  Append(clean_results, clean_result),
                                  current_token_count + result_tokens, budget)

\* the for loop from results[i] on, with the loop's two accumulators
RECURSIVE ProcessLoop(_, _, _, _, _)
ProcessLoop(results, i, clean_results, current_token_count, budget) ==
    IF i > Len(results) THEN clean_results
    ELSE LET clean_result == CleanResult(results[i])
             result_tokens == ResultTokens(clean_result)
         IN  IF OverBudget(current_token_count, result_tokens, budget)
             THEN clean_results
             ELSE ProcessLoop(results, i + 1,
                              Append(clean_results, clean_result),
                              current_token_count + result_tokens, budget)

ProcessResultsWithTokenLimit(results, budget) ==
    ProcessLoop(results, 1, <<>>, 0, budget)

-----------------------------------------------------------------------------
(* The two markdown renderers.                                             *)

RECURSIVE ConvertSources(_, _)
ConvertSources(rs, idx) ==
    IF idx > Len(rs) THEN <<>>
    ELSE <<"### ">> \o IntRepr(idx) \o <<". [">> \o rs[idx].title \o <<"](">>
         \o rs[idx].url \o <<")\n">> \o rs[idx].content \o <<"\n\n">>
         \o ConvertSources(rs, idx + 1)

ConvertToMarkdownAlwaysSources(query, data) ==
    <<"# Search Results: ">> \o query \o <<"\n\n">>
    \o (IF "answer" \in DOMAIN data
        THEN <<"## Summary\n">> \o data["answer"] \o <<"\n\n">>
        ELSE <<>>)
    \o <<"## Sources\n\n">> \o ConvertSources(data["results"], 1)

\* _convert_to_markdown(query, data)
ConvertToMarkdown(query, data) ==
    <<"# Search Results: ">> \o query \o <<"\n\n">>
    \o (IF "answer" \in DOMAIN data
        THEN <<"## Summary\n">> \o data["answer"] \o <<"\n\n">>
        ELSE <<>>)
    \o (IF data["results"] # <<>>
        THEN <<"## Sources\n\n">> \o ConvertSources(data["results"], 1)
        ELSE <<"No results found.">>)

RECURSIVE FormatSources(_, _)
FormatSources(rs, i) ==
    IF i >= Len(rs) THEN <<>>
    ELSE LET result == rs[i + 1]
             title == DictGet(result, "title", <<"No Title">>)
             url == DictGet(result, "url", <<>>)
             content == DictGet(result, "content", <<"No Content">>)
         IN  IntRepr(i + 1) \o <<". **[">> \o title \o <<"](">> \o url
             \o <<")**\n   ">> \o content \o <<"\n\n">>
             \o FormatSources(rs, i + 1)

\* "answer" in results and results["answer"]
AnswerShown(results) == "answer" \in DOMAIN results /\ results["answer"] # <<>>

ListedSourcesUncapped(items, cap) == items

\* results.get("results", [])[: self.max_results]
ListedSources(items, cap) == SliceTo(items, cap)

\* _format_results_markdown(results), for a results list that can be sliced
FormatResultsMarkdown(results, cap) ==
    <<"# Search Results\n\n">>
    \o (IF AnswerShown(results)
        THEN <<"## Answer\n\n">> \o results["answer"] \o <<"\n\n">>
        ELSE <<>>)
    \o <<"## Sources\n\n">>
    \o FormatSources(ListedSources(DictGet(results, "results", PyList(<<>>)).items, cap), 0)

-----------------------------------------------------------------------------
(* TavilySearchPlugin._format_detailed_results                             *)

AnswerKeptAlways(response, incl) == "answer" \in DOMAIN response

\* if "answer" in response and self.include_answer
AnswerKept(response, incl) == "answer" \in DOMAIN response /\ incl

\* clean_response, a dict with keys query, answer (optional) and results
CleanResponse(query, response, incl, budget) ==
    LET base == [k \in {"query", "results"} |->
                   IF k = "query" THEN query
                   ELSE ProcessResultsWithTokenLimit(
                            DictGet(response, "results", PyList(<<>>)).items, budget)]
    IN  IF AnswerKept(response, incl)
        THEN [k \in {"query", "answer", "results"} |->
                IF k = "answer" THEN response["answer"] ELSE base[k]]
        ELSE base

\* json.dumps(clean_response) if clean_response else "No results found."
DumpsOrNoResults(clean_response) ==
    IF DOMAIN clean_response # {} THEN JsonCleanResponse(clean_response)
    ELSE <<"No results found.">>

FormatDetailedResults(query, response, incl, fmt, budget) ==
    LET clean_response == CleanResponse(query, response, incl, budget)
    IN  IF fmt = "json" THEN DumpsOrNoResults(clean_response)
        ELSE IF fmt = "markdown" THEN ConvertToMarkdown(query, clean_response)
        ELSE JsonCleanResponse(clean_response)

-----------------------------------------------------------------------------
(* Inputs: what callers pass and what the provider answers.                *)

Queries == {<<"q">>}
ArgKeys == {None, Some(<<>>), Some(<<"k">>)}
EnvKeys == {None, Some(<<>>), Some(<<"e">>)}
SearchModes == {"detailed", "context"}
SearchDepths == {"basic", "advanced"}
Formats == {"json", "markdown"}
TokenBudgets == {TokenStep * k : k \in 1..MaxTokenSteps}
ResultCaps == 1..MaxCap
MaxResultsArgs == {None} \cup {Some(n) : n \in 0..MaxCap}
Messages == {<<"timeout">>, <<"401">>}
Contexts == {<<"ctx">>}
Answers == {<<>>, <<"A">>}

\* provider result records; score is optional
RawResultsOver(contents) ==
    {[title |-> <<"t">>, url |-> <<"u">>, content |-> c] : c \in contents}
    \cup {[title |-> <<"t">>, url |-> <<"u">>, content |-> c, score |-> MaxScore] :
            c \in contents}

SeqsUpTo(S, n) == UNION {[1..k -> S] : k \in 0..n}

RawResults == RawResultsOver({<<"c">>})
\* search_detailed is tried on results that carry no score
UnscoredResults == {r \in RawResults : "score" \notin DOMAIN r}
\* the truncation alone is also tried on contents that JSON escapes
TruncResults == RawResultsOver({<<"c">>, <<"c", "\"">>})

\* the provider's response: a dict with optional keys answer and results,
\* results being null or a list
ResponsesOver(lists) ==
    LET values == {PyNone} \cup {PyList(l) : l \in lists}
    IN  {[k \in {"results"} |-> rv] : rv \in values}
        \cup {[k \in {"answer", "results"} |-> IF k = "answer" THEN a ELSE rv] :
                a \in Answers, rv \in values}
        \cup {[k \in {"answer"} |-> a] : a \in Answers}
        \cup {[k \in {} |-> None]}

OutcomesOver(lists) ==
    {[kind |-> "raise", msg |-> m] : m \in Messages}
    \cup {[kind |-> "return", response |-> r] : r \in ResponsesOver(lists)}

SearchOutcomes == OutcomesOver(SeqsUpTo(RawResults, MaxResults))
DetailedOutcomes == OutcomesOver(SeqsUpTo(UnscoredResults, MaxResults))
\* the provider finds nothing
NoResultsOutcomes ==
    {o \in OutcomesOver({<<>>}) :
        o.kind = "return"
        /\ DictGet(o.response, "results", PyList(<<>>)) = PyList(<<>>)}

ContextOutcomes ==
    {[kind |-> "raise", msg |-> m] : m \in Messages}
    \cup {[kind |-> "return", context |-> c] : c \in Contexts}

Returned(v) == [kind |-> "return", value |-> v]
Raised(exc, msg) == [kind |-> "raise", exc |-> exc, msg |-> msg]

-----------------------------------------------------------------------------
(* TavilySearchPlugin.__init__                                             *)

\* Python truthiness of an Optional[str]
Truthy(opt) == opt # None /\ opt[1] # <<>>

\* api_key or os.getenv("TAVILY_API_KEY")
ResolveKey(key_arg, env) == IF Truthy(key_arg) THEN key_arg ELSE env

CredentialMissingOnlyNone(key) == key = None

\* if not self.api_key
CredentialMissing(key) == ~Truthy(key)

Construct(key_arg, mode, tokens, incl, depth, fmt, cap) ==
    /\ pc = "new"
    /\ search_mode' = mode
    /\ api_key' = ResolveKey(key_arg, env_key)
    /\ call' = [op |-> "__init__", api_key |-> key_arg]
    /\ provider_calls' = <<>>
    /\ sink_calls' = <<>>
    /\ IF CredentialMissing(api_key')
       THEN /\ pc' = "failed"
            /\ ret' = Raised("ValueError", <<"TAVILY_API_KEY not provided">>)
            /\ UNCHANGED <<client, search_depth, max_tokens, include_answer,
                           format, max_results>>
       ELSE /\ pc' = "ready"
            /\ client' = [api_key |-> api_key']
            /\ search_depth' = depth
            /\ max_tokens' = tokens
            /\ include_answer' = incl
            /\ format' = fmt
            /\ max_results' = cap
            /\ ret' = Returned(<<"TavilySearchPlugin">>)
    /\ UNCHANGED env_key

-----------------------------------------------------------------------------
(* TavilySearchPlugin.search                                               *)

LogEntry(query, results, success) ==
    [query |-> query, results |-> results, success |-> success]

\* the try block after the provider has answered: the sink calls made, then
\* either the rendered value or the exception a later step raises
SearchTry(query, response, fmt, cap) ==
    LET listed == DictGet(response, "results", PyList(<<>>))
        logged == <<LogEntry(query, listed, TRUE)>>
    IN  IF fmt = "json"
        THEN [raised |-> FALSE, sink |-> logged, value |-> JsonRawResponse(response)]
        ELSE IF listed.kind = "None"
        THEN [raised |-> TRUE, sink |-> logged,
              msg |-> <<"'NoneType' object is not subscriptable">>]
        ELSE [raised |-> FALSE, sink |-> logged,
              value |-> FormatResultsMarkdown(response, cap)]

SearchExceptReraise(query, msg, sink) ==
    [sink |-> sink, ret |-> Raised("Exception", msg)]

\* except Exception as e: log the failure, return "Search failed: <str(e)>"
SearchExcept(query, msg, sink) ==
    [sink |-> Append(sink, LogEntry(query, PyList(<<>>), FALSE)),
     ret |-> Returned(<<"Search failed: ">> \o msg)]

Search(query, outcome) ==
    /\ pc = "ready"
    /\ call' = [op |-> "search", query |-> query, outcome |-> outcome]
    /\ provider_calls' = <<[method |-> "search", query |-> query,
                            search_depth |-> search_depth,
                            max_tokens |-> max_tokens,
                            include_answer |-> include_answer]>>
    /\ IF outcome.kind = "raise"
       THEN LET h == SearchExcept(query, outcome.msg, <<>>)
            IN  sink_calls' = h.sink /\ ret' = h.ret
       ELSE LET t == SearchTry(query, outcome.response, format, max_results)
            IN  IF t.raised
                THEN LET h == SearchExcept(query, t.msg, t.sink)
                     IN  sink_calls' = h.sink /\ ret' = h.ret
                ELSE sink_calls' = t.sink /\ ret' = Returned(t.value)
    /\ UNCHANGED <<env_key, pc, cfgVars>>

-----------------------------------------------------------------------------
(* TavilySearchPlugin.search_detailed and search_context                   *)

EffectiveMaxResultsIfGiven(arg, default) == IF arg # None THEN arg[1] ELSE default

\* max_results = max_results or self.max_results
EffectiveMaxResults(arg, default) ==
    IF arg # None /\ arg[1] # 0 THEN arg[1] ELSE default

SearchDetailed(query, arg, outcome) ==
    /\ pc = "ready"
    /\ call' = [op |-> "search_detailed", query |-> query, max_results |-> arg,
                outcome |-> outcome]
    /\ provider_calls' = <<[method |-> "search", query |-> query,
                            search_depth |-> search_depth,
                            include_answer |-> include_answer,
                            max_results |-> EffectiveMaxResults(arg, max_results)]>>
    /\ sink_calls' = <<>>
    /\ ret' = IF outcome.kind = "raise"
              THEN Raised("Exception", outcome.msg)
              ELSE IF DictGet(outcome.response, "results", PyList(<<>>)).kind = "None"
              THEN Raised("TypeError", <<"'NoneType' object is not iterable">>)
              ELSE Returned(FormatDetailedResults(query, outcome.response,
                                include_answer, format, max_tokens))
    /\ UNCHANGED <<env_key, pc, cfgVars>>

SearchContext(query, outcome) ==
    /\ pc = "ready"
    /\ call' = [op |-> "search_context", query |-> query, outcome |-> outcome]
    /\ provider_calls' = <<[method |-> "get_search_context", query |-> query,
                            search_depth |-> search_depth,
                            max_tokens |-> max_tokens,
                            include_answer |-> include_answer]>>
    /\ sink_calls' = <<>>
    /\ ret' = IF outcome.kind = "raise" THEN Raised("Exception", outcome.msg)
              ELSE Returned(outcome.context)
    /\ UNCHANGED <<env_key, pc, cfgVars>>

-----------------------------------------------------------------------------
(* The plugin and its callers.                                             *)

Init ==
    /\ env_key \in EnvKeys
    /\ pc = "new"
    /\ api_key = Unset
    /\ client = Unset
    /\ search_mode = Unset
    /\ search_depth = Unset
    /\ max_tokens = Unset
    /\ include_answer = Unset
    /\ format = Unset
    /\ max_results = Unset
    /\ call = [op |-> "none"]
    /\ provider_calls = <<>>
    /\ sink_calls = <<>>
    /\ ret = [kind |-> "none"]

NextInit ==
    \E key_arg \in ArgKeys, mode \in SearchModes, tokens \in TokenBudgets,
       incl \in BOOLEAN, depth \in SearchDepths, fmt \in Formats,
       cap \in ResultCaps :
         Construct(key_arg, mode, tokens, incl, depth, fmt, cap)

Next ==
    \/ NextInit
    \/ \E query \in Queries, outcome \in SearchOutcomes : Search(query, outcome)
    \/ \E query \in Queries, arg \in MaxResultsArgs, outcome \in SearchOutcomes :
            SearchDetailed(query, arg, outcome)
    \/ \E query \in Queries, outcome \in ContextOutcomes :
            SearchContext(query, outcome)

\* the whole plugin: construction, then any number of calls
Spec == Init /\ [][Next]_vars

\* construction alone
SpecInit == Init /\ [][NextInit]_vars

\* a constructed instance (api_key given as argument, search_mode left at its
\* default), as Construct leaves it
InitReady ==
    /\ env_key = None
    /\ pc = "ready"
    /\ api_key = Some(<<"k">>)
    /\ client = [api_key |-> api_key]
    /\ search_mode = "detailed"
    /\ search_depth \in SearchDepths
    /\ max_tokens \in TokenBudgets
    /\ include_answer \in BOOLEAN
    /\ format \in Formats
    /\ max_results \in ResultCaps
    /\ call = [op |-> "__init__", api_key |-> api_key]
    /\ provider_calls = <<>>
    /\ sink_calls = <<>>
    /\ ret = Returned(<<"TavilySearchPlugin">>)

NextSearch ==
    \/ \E query \in Queries, outcome \in SearchOutcomes : Search(query, outcome)
    \/ \E query \in Queries, outcome \in ContextOutcomes :
            SearchContext(query, outcome)

\* a constructed instance serving search and search_context calls
SpecSearch == InitReady /\ [][NextSearch]_vars

NextDetailed ==
    \E query \in Queries, arg \in MaxResultsArgs, outcome \in DetailedOutcomes :
        SearchDetailed(query, arg, outcome)

\* a constructed instance serving search_detailed calls
SpecDetailed == InitReady /\ [][NextDetailed]_vars

NextNoResults ==
    \/ \E query \in Queries, outcome \in NoResultsOutcomes : Search(query, outcome)
    \/ \E query \in Queries, arg \in MaxResultsArgs, outcome \in NoResultsOutcomes :
            SearchDetailed(query, arg, outcome)

\* both rendering entry points, the provider finding nothing
SpecNoResults == InitReady /\ [][NextNoResults]_vars

-----------------------------------------------------------------------------
(* _process_results_with_token_limit on its own: every budget and every    *)
(* result list within the bounds, on an instance with the constructor's    *)
(* other defaults.                                                         *)

DefaultMaxResults == 5

InitTrunc ==
    /\ env_key = None
    /\ pc = "ready"
    /\ api_key = Some(<<"k">>)
    /\ client = [api_key |-> api_key]
    /\ search_mode = "detailed"
    /\ search_depth = "advanced"
    /\ max_tokens \in 1..MaxTokens
    /\ include_answer = TRUE
    /\ format = "markdown"
    /\ max_results = DefaultMaxResults
    /\ call \in {[op |-> "_process_results_with_token_limit", results |-> rs] :
                   rs \in SeqsUpTo(TruncResults, MaxTruncLen)}
    /\ provider_calls = <<>>
    /\ sink_calls = <<>>
    /\ ret = [kind |-> "pending"]

ProcessResults ==
    /\ pc = "ready"
    /\ call.op = "_process_results_with_token_limit"
    /\ ret.kind = "pending"
    /\ ret' = Returned(ProcessResultsWithTokenLimit(call.results, max_tokens))
    /\ UNCHANGED <<env_key, pc, cfgVars, call, provider_calls, sink_calls>>

SpecTrunc == InitTrunc /\ [][ProcessResults]_vars

-----------------------------------------------------------------------------
(* Properties of the truncation (SpecTrunc).                               *)

TruncReturned ==
    call.op = "_process_results_with_token_limit" /\ ret.kind = "return"

\* serialized size of the first k projected records
RECURSIVE PrefixSize(_, _)
PrefixSize(results, k) ==
    IF k = 0 THEN 0
    ELSE PrefixSize(results, k - 1) + ResultTokens(CleanResult(results[k]))

\* the length of the longest prefix whose serialized size is at most B
LongestPrefix(results, B) ==
    CHOOSE k \in 0..Len(results) :
        /\ PrefixSize(results, k) <= B
        /\ \A j \in 0..Len(results) : PrefixSize(results, j) <= B => j <= k

Projected(results, k) == [i \in 1..k |-> CleanResult(results[i])]

\* C1: the truncation returns exactly the longest prefix of the input, each
\* record projected to title, url, content, score (0 when absent), whose
\* cumulative serialized size does not exceed the budget: original order, all
\* records when the total fits, none when the first record alone overflows,
\* nothing after the first record that overflows.
C1_LongestPrefixKept ==
    TruncReturned =>
        LET results == call.results
            n == Len(results)
        IN  /\ ret.value = Projected(results, LongestPrefix(results, max_tokens))
            /\ PrefixSize(results, n) <= max_tokens => Len(ret.value) = n
            /\ (n > 0 /\ PrefixSize(results, 1) > max_tokens) => ret.value = <<>>
            /\ \A i \in 1..Len(ret.value) :
                 /\ ret.value[i].title = results[i]["title"]
                 /\ ret.value[i].content = results[i]["content"]
                 /\ ret.value[i].score =
                      (IF "score" \in DOMAIN results[i] THEN results[i]["score"] ELSE 0)

\* C1's case: a record overflows the budget and a later record, which would
\* have fitted in its place, is dropped with it
C1_Witness ==
    /\ TruncReturned
    /\ Len(ret.value) >= 1
    /\ Len(call.results) >= Len(ret.value) + 2
    /\ PrefixSize(call.results, Len(ret.value))
         + ResultTokens(CleanResult(call.results[Len(ret.value) + 2])) <= max_tokens

\* C2 as stated: whenever the truncation excludes a candidate record, the
\* cumulative size of the records it kept is strictly less than the budget
\* (so a record that brings the total to exactly the budget is not kept).
C2_KeptStrictlyBelowBudget ==
    (TruncReturned /\ Len(ret.value) < Len(call.results)) =>
        PrefixSize(call.results, Len(ret.value)) < max_tokens

\* C2 amended: whenever the truncation excludes a candidate record, the
\* cumulative size of the records it kept is at most the budget and adding the
\* excluded candidate would exceed it; a record that brings the running total
\* to exactly the budget is kept.
C2_KeptWithinBudget ==
    TruncReturned =>
        LET results == call.results
            kept == Len(ret.value)
        IN  /\ kept < Len(results) =>
                 /\ PrefixSize(results, kept) <= max_tokens
                 /\ PrefixSize(results, kept + 1) > max_tokens
            /\ \A k \in 1..Len(results) :
                 PrefixSize(results, k) = max_tokens => kept >= k

\* C2's case: a candidate is excluded after the kept records reached the
\* budget exactly
C2_Witness ==
    /\ TruncReturned
    /\ Len(ret.value) >= 1
    /\ Len(ret.value) < Len(call.results)
    /\ PrefixSize(call.results, Len(ret.value)) = max_tokens

-----------------------------------------------------------------------------
(* Properties of construction (SpecInit).                                  *)

\* a credential is a non-empty string
HasCredential(opt) == opt # None /\ opt[1] # <<>>

\* C3: constructing with no credential argument and no credential in
\* TAVILY_API_KEY always fails with the configuration error (the ValueError
\* of __init__), before the provider handle is created and before any remote
\* call; with a credential from either source, the argument taking
\* precedence, construction succeeds and holds that credential.
C3_MissingCredentialFails ==
    call.op = "__init__" =>
        IF ~HasCredential(call.api_key) /\ ~HasCredential(env_key)
        THEN /\ pc = "failed"
             /\ ret.kind = "raise"
             /\ ret.exc = "ValueError"
             /\ client = Unset
             /\ provider_calls = <<>>
        ELSE /\ pc = "ready"
             /\ ret.kind = "return"
             /\ api_key = (IF HasCredential(call.api_key) THEN call.api_key
                           ELSE env_key)
             /\ client = [api_key |-> api_key]

\* C3's case: construction was attempted with an empty argument and an empty
\* environment value, and failed
C3_Witness ==
    /\ call.op = "__init__"
    /\ call.api_key = Some(<<>>)
    /\ env_key = Some(<<>>)
    /\ pc = "failed"

-----------------------------------------------------------------------------
(* Properties of search (SpecSearch) and of rendering.                     *)

SearchReturned(op) ==
    call.op = op /\ call.outcome.kind = "return" /\ ret.kind = "return"

\* C4 as stated: with include_answer = false no answer or summary section
\* appears in what search or search_detailed renders, in JSON or markdown,
\* whatever the provider's response holds (stated here for the responses whose
\* answer, when there is one, is a non-empty string).
C4_NoAnswerWhenDisabled ==
    ((SearchReturned("search") \/ SearchReturned("search_detailed"))
        /\ include_answer = FALSE
        /\ DictGet(call.outcome.response, "answer", <<"A">>) # <<>>) =>
        /\ ~HasPiece(ret.value, "## Answer\n\n")
        /\ ~HasPiece(ret.value, "## Summary\n")
        /\ ~HasPiece(ret.value, "\"answer\"")

ZeroResults(response) ==
    DictGet(response, "results", PyList(<<>>)) = PyList(<<>>)

\* the JSON text holds "results": []
HasEmptyResults(text) ==
    \E i \in 1..(Len(text) - 2) :
        text[i] = "\"results\"" /\ text[i + 1] = ": " /\ text[i + 2] = "[]"

\* C5 as stated: when the provider returns zero results, markdown rendering by
\* search and by search_detailed contains "No results found.", and JSON
\* rendering yields an empty results collection (stated here for the responses
\* that hold an empty result list).
C5_NoResultsIndicatorEverywhere ==
    ((SearchReturned("search") \/ SearchReturned("search_detailed"))
        /\ "results" \in DOMAIN call.outcome.response
        /\ ZeroResults(call.outcome.response)) =>
        IF format = "markdown" THEN HasPiece(ret.value, "No results found.")
        ELSE HasEmptyResults(ret.value)

\* C5 amended: when the provider returns zero results, search_detailed's
\* markdown contains "No results found." and its JSON holds an empty results
\* collection; search's markdown ends with an empty "## Sources" section and
\* does not contain "No results found."; search's JSON reproduces the
\* provider's response, whose results collection is empty when it has one.
C5_NoResultsIndicatorDetailedOnly ==
    /\ (SearchReturned("search_detailed") /\ ZeroResults(call.outcome.response)) =>
          IF format = "markdown" THEN HasPiece(ret.value, "No results found.")
          ELSE HasEmptyResults(ret.value)
    /\ (SearchReturned("search") /\ ZeroResults(call.outcome.response)) =>
          IF format = "markdown"
          THEN /\ ~HasPiece(ret.value, "No results found.")
               /\ ret.value[Len(ret.value)] = "## Sources\n\n"
          ELSE IF "results" \in DOMAIN call.outcome.response
               THEN HasEmptyResults(ret.value)
               ELSE ~HasPiece(ret.value, "\"results\"")

\* C5's case: search rendered markdown for a response with an empty result list
C5_Witness ==
    /\ SearchReturned("search")
    /\ format = "markdown"
    /\ "results" \in DOMAIN call.outcome.response
    /\ ZeroResults(call.outcome.response)

\* C6: when the provider call of search fails with message m, search records
\* one failed-search observation (empty result list, success false) and
\* returns "Search failed: " followed by m; no exception reaches the caller.
C6_ProviderFailureSwallowed ==
    (call.op = "search" /\ call.outcome.kind = "raise") =>
        /\ sink_calls = <<LogEntry(call.query, PyList(<<>>), FALSE)>>
        /\ ret.kind = "return"
        /\ ret.value = <<"Search failed: ">> \o call.outcome.msg

\* C6's case: the provider call of a search failed
C6_Witness ==
    /\ call.op = "search"
    /\ call.outcome.kind = "raise"
    /\ call.outcome.msg = <<"timeout">>

\* C7 as stated: every invocation of search calls the observability sink
\* exactly once, also when a step after the provider call fails.
C7_SinkCalledOnce ==
    call.op = "search" => Len(sink_calls) = 1

\* the Sources entries variant A is to hold for the first k results
RECURSIVE NumberedEntries(_, _)
NumberedEntries(items, k) ==
    IF k = 0 THEN <<>>
    ELSE NumberedEntries(items, k - 1)
         \o IntRepr(k) \o <<". **[">> \o items[k]["title"] \o <<"](">>
         \o items[k]["url"] \o <<")**\n   ">> \o items[k]["content"] \o <<"\n\n">>

\* what follows the "## Sources" heading
SourcesSection(text) ==
    LET h == CHOOSE i \in 1..Len(text) : text[i] = "## Sources\n\n"
    IN  SubSeq(text, h + 1, Len(text))

\* the provider's response holds a result list, or none at all (n = 0)
ResultsListed(response) == DictGet(response, "results", PyList(<<>>)).kind = "list"

-----------------------------------------------------------------------------
(* Properties of search_detailed (SpecDetailed).                           *)

\* the envelope search_detailed is to serialise
Envelope(query, response, incl, budget) ==
    LET items == DictGet(response, "results", PyList(<<>>)).items
        kept == Projected(items, LongestPrefix(items, budget))
    IN  IF "answer" \in DOMAIN response /\ incl
        THEN [k \in {"query", "answer", "results"} |->
                CASE k = "query" -> query
                  [] k = "answer" -> response["answer"]
                  [] k = "results" -> kept]
        ELSE [k \in {"query", "results"} |->
                IF k = "query" THEN query ELSE kept]

\* C9: in JSON format search_detailed returns the serialisation of an envelope
\* with keys query and results, results being the token-budget-truncated list
\* of title/url/content/score records, and with key answer exactly when the
\* provider's response has an answer and include_answer is true; it never
\* returns the literal "No results found.".
C9_JsonEnvelope ==
    (SearchReturned("search_detailed") /\ format = "json") =>
        /\ ret.value = JsonCleanResponse(
               Envelope(call.query, call.outcome.response, include_answer, max_tokens))
        /\ HasPiece(ret.value, "\"query\"")
        /\ HasPiece(ret.value, "\"results\"")
        /\ HasPiece(ret.value, "\"answer\"")
             <=> ("answer" \in DOMAIN call.outcome.response /\ include_answer)
        /\ ret.value # <<"No results found.">>

\* C9's case: JSON format, the provider supplied an answer that is not wanted,
\* and only the first of its results fits the budget
C9_Witness ==
    /\ SearchReturned("search_detailed")
    /\ format = "json"
    /\ "answer" \in DOMAIN call.outcome.response
    /\ ~include_answer
    /\ "results" \in DOMAIN call.outcome.response
    /\ Len(call.outcome.response["results"].items) > 1
    /\ HasPiece(ret.value, "\"title\"")
    /\ PrefixSize(call.outcome.response["results"].items, 2) > max_tokens

====
